---- MODULE Spec2Model ----
(***************************************************************************)
(* A model of src/src/lib.rs: ArcSlice<T>, SmallArcSlice<T, CAP>, the      *)
(* ArcSliceSplit capability and the generic ArcSliceIter.                  *)
(*                                                                         *)
(* Handles live in slots, each slot owned by one thread.  Arc<[T]> buffers *)
(* live in `heap`, with their strong count.  `ghost` records, per slot,    *)
(* the history of the handle (source sequence, number of trims at each     *)
(* end, tag chosen at construction, iterator progress); no operation reads *)
(* it.  `last` records the operation that produced the current state.      *)
(* `src` is the source sequence every construction of a behaviour draws.   *)
(***************************************************************************)
EXTENDS Integers, Sequences, FiniteSets

VARIABLES src, handles, slot, heap, pending, last, ghost

vars == <<src, handles, slot, heap, pending, last, ghost>>

\* ---------------------------------------------------------------- bounds
\* Longest source sequence, largest CAP.
MaxLen == 2
MaxCap == 1

\* Two threads with one handle slot each, two cells for Arc buffers.
Elems == {1, 2}
Threads == {1, 2}
Slots == {1, 2}
Bufs == {1, 2}
Caps == 0..MaxCap
Sources == UNION {[1..n -> Elems] : n \in 0..MaxLen}

Owner(i) == i

\* ------------------------------------------------------- Option<T>, slices
NoneOpt == <<>>
Some(e) == <<e>>

\* &slice[range]: Rust panics unless start <= end <= len.
Index(slice, start, end) ==
    IF start <= end /\ end <= Len(slice)
    THEN SubSeq(slice, start + 1, end)
    ELSE <<"panic">>

\* ------------------------------------------------------------ Arc<[T]>
NoBuf == [state |-> "unalloc", data |-> <<>>, strong |-> 0, nfree |-> 0]

FreeBufs(hp) == {b \in Bufs : hp[b].state = "unalloc"}

FreshBuf(hp) ==
    IF FreeBufs(hp) = {} THEN 0
    ELSE CHOOSE b \in FreeBufs(hp) : \A c \in FreeBufs(hp) : b <= c

\* Arc::from / Arc::from_iter: one new buffer, strong count 1.
Arc_new(hp, b, data) ==
    IF b = 0 THEN hp
    ELSE [hp EXCEPT ![b] = [state |-> "live", data |-> data,
                            strong |-> 1, nfree |-> 0]]

\* Arc::clone: atomic increment of the strong count.
Arc_clone(hp, b) == [hp EXCEPT ![b].strong = @ + 1]

\* Arc::drop, first half: atomic decrement of the strong count.
Arc_fetch_sub(hp, b) == [hp EXCEPT ![b].strong = @ - 1]

\* Arc::drop: the thread that saw the count at 1 releases the buffer.
Arc_is_last(old) == old = 1

\* Arc::drop, second half: the buffer is released.
Arc_drop_slow(hp, b) ==
    [hp EXCEPT ![b] = [state |-> "freed", data |-> <<>>,
                       strong |-> @.strong, nfree |-> @.nfree + 1]]

\* Reading through an Arc.
Deref(hp, b) == hp[b].data

\* ------------------------------------------------------------- handles
NoHandle == [kind |-> "None", cap |-> 0, tag |-> "None", arc |-> 0,
             array |-> <<>>, start |-> 0, end |-> 0]

\* ArcSlice { inner: Empty }
ArcEmpty == [kind |-> "ArcSlice", cap |-> 0, tag |-> "Empty", arc |-> 0,
             array |-> <<>>, start |-> 0, end |-> 0]

\* ArcSlice { inner: Shared(arc, start..end) }
ArcShared(b, s, e) == [kind |-> "ArcSlice", cap |-> 0, tag |-> "Shared",
                       arc |-> b, array |-> <<>>, start |-> s, end |-> e]

\* SmallArcSlice { inner: Inline(array), range: s..e }
SmallInline(cap, array, s, e) ==
    [kind |-> "SmallArcSlice", cap |-> cap, tag |-> "Inline", arc |-> 0,
     array |-> array, start |-> s, end |-> e]

\* SmallArcSlice { inner: Shared(arc), range: s..e }
SmallShared(cap, b, s, e) ==
    [kind |-> "SmallArcSlice", cap |-> cap, tag |-> "Shared", arc |-> b,
     array |-> <<>>, start |-> s, end |-> e]

\* ArcSlice::raw_inner_slice
ArcSlice_raw_inner_slice(h, hp) ==
    IF h.tag = "Empty" THEN <<>>
    ELSE Index(Deref(hp, h.arc), h.start, h.end)

\* Mutant: the range is not applied to the storage.
SmallArcSlice_raw_inner_slice_unranged(h, hp) ==
    IF h.tag = "Inline" THEN h.array ELSE Deref(hp, h.arc)

\* SmallArcSlice::raw_inner_slice
SmallArcSlice_raw_inner_slice(h, hp) ==
    IF h.tag = "Inline" THEN Index(h.array, h.start, h.end)
    ELSE Index(Deref(hp, h.arc), h.start, h.end)

raw_inner_slice(h, hp) ==
    IF h.kind = "ArcSlice" THEN ArcSlice_raw_inner_slice(h, hp)
    ELSE SmallArcSlice_raw_inner_slice(h, hp)

\* PartialEq::eq of both kinds (and across capacities for SmallArcSlice).
eq(a, b, hp) == raw_inner_slice(a, hp) = raw_inner_slice(b, hp)

\* ------------------------------------------------------- construction
\* A construction returns the handle and the heap after it.
\* From<[T; N]> for ArcSlice
ArcSlice_from(values, hp) ==
    IF Len(values) = 0 THEN [h |-> ArcEmpty, heap |-> hp]
    ELSE LET b == FreshBuf(hp) IN
         [h |-> ArcShared(b, 0, Len(values)), heap |-> Arc_new(hp, b, values)]

\* FromIterator for ArcSlice
ArcSlice_from_iter(iter, hp) ==
    IF iter # <<>>
    THEN LET first == Head(iter)
             data == <<first>> \o Tail(iter)
             b == FreshBuf(hp)
         IN [h |-> ArcShared(b, 0, Len(data)), heap |-> Arc_new(hp, b, data)]
    ELSE [h |-> ArcEmpty, heap |-> hp]

\* Default for ArcSlice
ArcSlice_default(hp) == [h |-> ArcEmpty, heap |-> hp]

\* Mutant: the range of an inline handle spans the capacity, not N.
SmallArcSlice_from_cap_range(cap, values, hp) ==
    LET N == Len(values) IN
    IF N <= cap
    THEN [h |-> SmallInline(cap, values, 0, cap), heap |-> hp]
    ELSE LET b == FreshBuf(hp) IN
         [h |-> SmallShared(cap, b, 0, N), heap |-> Arc_new(hp, b, values)]

\* From<[T; N]> for SmallArcSlice
SmallArcSlice_from(cap, values, hp) ==
    LET N == Len(values) IN
    IF N <= cap
    THEN [h |-> SmallInline(cap, values, 0, N), heap |-> hp]
    ELSE LET b == FreshBuf(hp) IN
         [h |-> SmallShared(cap, b, 0, N), heap |-> Arc_new(hp, b, values)]

\* Mutant: the array takes one element more than its capacity.
try_push_ok_off_by_one(array, cap) == Len(array) <= cap

\* ArrayVec::try_push succeeds while the array is below capacity.
try_push_ok(array, cap) == Len(array) < cap

\* FromIterator for SmallArcSlice: the while loop, one element per call.
RECURSIVE SmallArcSlice_from_iter_loop(_, _, _, _)
SmallArcSlice_from_iter_loop(cap, array, iter, hp) ==
    IF iter = <<>>
    THEN [h |-> SmallInline(cap, array, 0, Len(array)), heap |-> hp]
    ELSE LET value == Head(iter) IN
         IF try_push_ok(array, cap)
         THEN SmallArcSlice_from_iter_loop(cap, Append(array, value), Tail(iter), hp)
         ELSE LET data == (array \o <<value>>) \o Tail(iter)
                  b == FreshBuf(hp)
              IN [h |-> SmallShared(cap, b, 0, Len(data)),
                  heap |-> Arc_new(hp, b, data)]

SmallArcSlice_from_iter(cap, iter, hp) ==
    SmallArcSlice_from_iter_loop(cap, <<>>, iter, hp)

\* Default for SmallArcSlice
SmallArcSlice_default(cap, hp) == [h |-> SmallInline(cap, <<>>, 0, 0), heap |-> hp]

\* ------------------------------------------------------------- clone
\* A clone returns the new handle, the heap after it and the number of
\* T::clone calls it made.
\* Mutant: the Arc is copied without a count of its own.
ArcSlice_clone_uncounted(h, hp) ==
    IF h.tag = "Empty" THEN [h |-> ArcEmpty, heap |-> hp, clones |-> 0]
    ELSE [h |-> ArcShared(h.arc, h.start, h.end), heap |-> hp, clones |-> 0]

\* Clone for ArcSliceInner / ArcSlice
ArcSlice_clone(h, hp) ==
    IF h.tag = "Empty" THEN [h |-> ArcEmpty, heap |-> hp, clones |-> 0]
    ELSE [h |-> ArcShared(h.arc, h.start, h.end),
          heap |-> Arc_clone(hp, h.arc), clones |-> 0]

\* Mutant: a Shared inner is cloned into a buffer of its own.
SmallArcSliceInner_clone_deep(h, hp) ==
    IF h.tag = "Inline"
    THEN [h |-> h, heap |-> hp, clones |-> Len(h.array)]
    ELSE LET b == FreshBuf(hp) IN
         IF b = 0 THEN [h |-> h, heap |-> Arc_clone(hp, h.arc), clones |-> 0]
         ELSE [h |-> [h EXCEPT !.arc = b],
               heap |-> Arc_new(hp, b, Deref(hp, h.arc)),
               clones |-> Len(Deref(hp, h.arc))]

\* derive(Clone) for SmallArcSliceInner: ArrayVec::clone duplicates every
\* element of the inline array, Arc::clone bumps the count.
SmallArcSliceInner_clone(h, hp) ==
    IF h.tag = "Inline"
    THEN [h |-> [h EXCEPT !.array = [n \in 1..Len(h.array) |-> h.array[n]]],
          heap |-> hp, clones |-> Len(h.array)]
    ELSE [h |-> h, heap |-> Arc_clone(hp, h.arc), clones |-> 0]

\* derive(Clone) for SmallArcSlice: inner.clone(), range.clone()
SmallArcSlice_clone(h, hp) ==
    LET c == SmallArcSliceInner_clone(h, hp) IN
    [h |-> [c.h EXCEPT !.start = h.start, !.end = h.end],
     heap |-> c.heap, clones |-> c.clones]

clone(h, hp) ==
    IF h.kind = "ArcSlice" THEN ArcSlice_clone(h, hp)
    ELSE SmallArcSlice_clone(h, hp)

\* ------------------------------------------------------ ArcSliceSplit
\* A split returns Option<(&Item, Self)>, the heap after it and the number
\* of T::clone calls it made.
NoSplit(hp) == [some |-> FALSE, item |-> 0, rest |-> NoHandle,
                heap |-> hp, clones |-> 0]

\* Mutant: the item is read at index 0 of the buffer, not of the range.
ArcSlice_split_first_item0(h, hp) ==
    IF h.tag # "Shared" THEN NoSplit(hp)
    ELSE IF h.start < h.end
    THEN [some |-> TRUE,
          item |-> Deref(hp, h.arc)[1],
          rest |-> ArcShared(h.arc, h.start + 1, h.end),
          heap |-> Arc_clone(hp, h.arc), clones |-> 0]
    ELSE NoSplit(hp)

\* Mutant: the remainder takes the buffer without cloning the Arc.
ArcSlice_split_first_noclone(h, hp) ==
    IF h.tag # "Shared" THEN NoSplit(hp)
    ELSE IF h.start < h.end
    THEN [some |-> TRUE,
          item |-> Index(Deref(hp, h.arc), h.start, h.end)[1],
          rest |-> ArcShared(h.arc, h.start + 1, h.end),
          heap |-> hp, clones |-> 0]
    ELSE NoSplit(hp)

\* ArcSlice::arc_slice_split_first
ArcSlice_split_first(h, hp) ==
    IF h.tag # "Shared" THEN NoSplit(hp)
    ELSE IF h.start < h.end
    THEN [some |-> TRUE,
          item |-> Index(Deref(hp, h.arc), h.start, h.end)[1],
          rest |-> ArcShared(h.arc, h.start + 1, h.end),
          heap |-> Arc_clone(hp, h.arc), clones |-> 0]
    ELSE NoSplit(hp)

\* Mutant: the remainder is trimmed at the front.
ArcSlice_split_last_front(h, hp) ==
    IF h.tag # "Shared" THEN NoSplit(hp)
    ELSE IF h.start < h.end
    THEN LET s == Index(Deref(hp, h.arc), h.start, h.end) IN
         [some |-> TRUE,
          item |-> s[Len(s)],
          rest |-> ArcShared(h.arc, h.start + 1, h.end),
          heap |-> Arc_clone(hp, h.arc), clones |-> 0]
    ELSE NoSplit(hp)

\* ArcSlice::arc_slice_split_last
ArcSlice_split_last(h, hp) ==
    IF h.tag # "Shared" THEN NoSplit(hp)
    ELSE IF h.start < h.end
    THEN LET s == Index(Deref(hp, h.arc), h.start, h.end) IN
         [some |-> TRUE,
          item |-> s[Len(s)],
          rest |-> ArcShared(h.arc, h.start, h.end - 1),
          heap |-> Arc_clone(hp, h.arc), clones |-> 0]
    ELSE NoSplit(hp)

\* Mutant: a remainder that fits the capacity is collected into an inline
\* array again.
SmallArcSlice_split_first_reinline(h, hp) ==
    IF h.start < h.end
    THEN LET c == SmallArcSliceInner_clone(h, hp)
             s == SmallArcSlice_raw_inner_slice(h, hp)
         IN [some |-> TRUE,
             item |-> s[1],
             rest |-> IF Len(s) - 1 <= h.cap
                      THEN SmallInline(h.cap, Tail(s), 0, Len(s) - 1)
                      ELSE [c.h EXCEPT !.start = h.start + 1, !.end = h.end],
             heap |-> IF Len(s) - 1 <= h.cap THEN hp ELSE c.heap,
             clones |-> IF Len(s) - 1 <= h.cap THEN Len(s) - 1 ELSE c.clones]
    ELSE NoSplit(hp)

\* SmallArcSlice::arc_slice_split_first
SmallArcSlice_split_first(h, hp) ==
    IF h.start < h.end
    THEN LET c == SmallArcSliceInner_clone(h, hp) IN
         [some |-> TRUE,
          item |-> SmallArcSlice_raw_inner_slice(h, hp)[1],
          rest |-> [c.h EXCEPT !.start = h.start + 1, !.end = h.end],
          heap |-> c.heap, clones |-> c.clones]
    ELSE NoSplit(hp)

\* SmallArcSlice::arc_slice_split_last
SmallArcSlice_split_last(h, hp) ==
    IF h.start < h.end
    THEN LET c == SmallArcSliceInner_clone(h, hp)
             s == SmallArcSlice_raw_inner_slice(h, hp)
         IN [some |-> TRUE,
             item |-> s[Len(s)],
             rest |-> [c.h EXCEPT !.start = h.start, !.end = h.end - 1],
             heap |-> c.heap, clones |-> c.clones]
    ELSE NoSplit(hp)

arc_slice_split_first(h, hp) ==
    IF h.kind = "ArcSlice" THEN ArcSlice_split_first(h, hp)
    ELSE SmallArcSlice_split_first(h, hp)

arc_slice_split_last(h, hp) ==
    IF h.kind = "ArcSlice" THEN ArcSlice_split_last(h, hp)
    ELSE SmallArcSlice_split_last(h, hp)

\* --------------------------------------------------------------- drop
HoldsArc(h) == h.tag = "Shared"

\* Dropping a handle in one piece (the old value of an assigned field):
\* an Inline array goes with the handle, a Shared one gives up its count
\* and releases the buffer if it held the last one.
drop_in_place(h, hp) ==
    IF HoldsArc(h)
    THEN LET old == hp[h.arc].strong
             dec == Arc_fetch_sub(hp, h.arc)
         IN IF Arc_is_last(old) THEN Arc_drop_slow(dec, h.arc) ELSE dec
    ELSE hp

\* ------------------------------------------------------- ArcSliceIter
\* Mutant: the wrapped handle is not replaced by the remainder.
ArcSliceIter_next_stuck(h, hp) ==
    LET r == arc_slice_split_first(h, hp) IN
    IF r.some
    THEN [ret |-> Some(r.item), slice |-> h,
          heap |-> drop_in_place(r.rest, r.heap), clones |-> r.clones + 1]
    ELSE [ret |-> NoneOpt, slice |-> h, heap |-> hp, clones |-> 0]

\* Iterator::next: Option<Item>, the wrapped handle and the heap after it.
ArcSliceIter_next(h, hp) ==
    LET r == arc_slice_split_first(h, hp) IN
    IF r.some
    THEN [ret |-> Some(r.item), slice |-> r.rest,
          heap |-> drop_in_place(h, r.heap), clones |-> r.clones + 1]
    ELSE [ret |-> NoneOpt, slice |-> h, heap |-> hp, clones |-> 0]

\* --------------------------------------------------------------- state
NoGhost == [root |-> <<>>, nf |-> 0, nl |-> 0, tag0 |-> "None",
            orig |-> <<>>, k |-> 0, done |-> FALSE]

NewGhost(s, h) == [root |-> s, nf |-> 0, nl |-> 0, tag0 |-> h.tag,
                     orig |-> <<>>, k |-> 0, done |-> FALSE]

Op(op, recv, dst, ret, clones) ==
    [op |-> op, recv |-> recv, dst |-> dst, ret |-> ret, clones |-> clones]

Init ==
    /\ src \in Sources
    /\ handles = [i \in Slots |-> NoHandle]
    /\ slot = [i \in Slots |-> "free"]
    /\ heap = [b \in Bufs |-> NoBuf]
    /\ pending = [t \in Threads |-> 0]
    /\ ghost = [i \in Slots |-> NoGhost]
    /\ last = Op("init", 0, 0, NoneOpt, 0)

Running(t) == pending[t] = 0

\* A construction by the owner of slot j puts the new handle there.  One
\* that needs a buffer waits for a free cell of the bounded heap.
Construct(j, op, s, r) ==
    /\ slot[j] = "free"
    /\ Running(Owner(j))
    /\ HoldsArc(r.h) => r.h.arc # 0
    /\ handles' = [handles EXCEPT ![j] = r.h]
    /\ slot' = [slot EXCEPT ![j] = "handle"]
    /\ heap' = r.heap
    /\ ghost' = [ghost EXCEPT ![j] = NewGhost(s, r.h)]
    /\ last' = Op(op, 0, j, NoneOpt, 0)
    /\ UNCHANGED <<src, pending>>

NewArcFromArray(j, values) ==
    Construct(j, "from", values, ArcSlice_from(values, heap))

NewArcFromIter(j, iter) ==
    Construct(j, "from_iter", iter, ArcSlice_from_iter(iter, heap))

NewArcDefault(j) ==
    Construct(j, "default", <<>>, ArcSlice_default(heap))

NewSmallFromArray(j, cap, values) ==
    Construct(j, "from", values, SmallArcSlice_from(cap, values, heap))

NewSmallFromIter(j, cap, iter) ==
    Construct(j, "from_iter", iter, SmallArcSlice_from_iter(cap, iter, heap))

NewSmallDefault(j, cap) ==
    Construct(j, "default", <<>>, SmallArcSlice_default(cap, heap))

\* clone() of the handle in slot i; the clone goes to free slot j (of the
\* same thread, or moved to the other one).
Clone(i, j) ==
    /\ slot[i] = "handle" /\ slot[j] = "free"
    /\ Running(Owner(i))
    /\ LET c == clone(handles[i], heap) IN
       /\ handles' = [handles EXCEPT ![j] = c.h]
       /\ heap' = c.heap
       /\ last' = Op("clone", i, j, NoneOpt, c.clones)
    /\ slot' = [slot EXCEPT ![j] = "handle"]
    /\ ghost' = [ghost EXCEPT ![j] = ghost[i]]
    /\ UNCHANGED <<src, pending>>

\* A split of the handle in slot i; a remainder goes to free slot j.
Split(i, j, op, r, g) ==
    /\ slot[i] = "handle" /\ slot[j] = "free"
    /\ Running(Owner(i))
    /\ IF r.some
       THEN /\ handles' = [handles EXCEPT ![j] = r.rest]
            /\ slot' = [slot EXCEPT ![j] = "handle"]
            /\ ghost' = [ghost EXCEPT ![j] = g]
            /\ last' = Op(op, i, j, Some(r.item), r.clones)
       ELSE /\ UNCHANGED <<handles, slot, ghost>>
            /\ last' = Op(op, i, 0, NoneOpt, r.clones)
    /\ heap' = r.heap
    /\ UNCHANGED <<src, pending>>

TakeFirst(i, j) ==
    Split(i, j, "take_first", arc_slice_split_first(handles[i], heap),
          [ghost[i] EXCEPT !.nf = @ + 1])

TakeLast(i, j) ==
    Split(i, j, "take_last", arc_slice_split_last(handles[i], heap),
          [ghost[i] EXCEPT !.nl = @ + 1])

\* into_iter(self): the handle moves into an ArcSliceIter.
IntoIter(i) ==
    /\ slot[i] = "handle"
    /\ Running(Owner(i))
    /\ slot' = [slot EXCEPT ![i] = "iter"]
    /\ ghost' = [ghost EXCEPT ![i].orig = raw_inner_slice(handles[i], heap)]
    /\ last' = Op("into_iter", i, i, NoneOpt, 0)
    /\ UNCHANGED <<src, handles, heap, pending>>

\* Iterator::next on the iterator in slot i.
IterNext(i) ==
    /\ slot[i] = "iter"
    /\ Running(Owner(i))
    /\ LET n == ArcSliceIter_next(handles[i], heap) IN
       /\ handles' = [handles EXCEPT ![i] = n.slice]
       /\ heap' = n.heap
       /\ last' = Op("next", i, i, n.ret, n.clones)
       /\ ghost' = [ghost EXCEPT ![i] =
                      IF n.ret = NoneOpt THEN [@ EXCEPT !.done = TRUE]
                      ELSE [@ EXCEPT !.k = @ + 1, !.nf = @ + 1]]
    /\ UNCHANGED <<src, slot, pending>>

\* Dropping the handle or iterator in slot i.  A Shared one decrements the
\* count atomically; the thread that took it from 1 goes on to release the
\* buffer in a later step of its own.
Drop(i) ==
    /\ slot[i] # "free"
    /\ Running(Owner(i))
    /\ handles' = [handles EXCEPT ![i] = NoHandle]
    /\ slot' = [slot EXCEPT ![i] = "free"]
    /\ ghost' = [ghost EXCEPT ![i] = NoGhost]
    /\ last' = Op("drop", i, 0, NoneOpt, 0)
    /\ UNCHANGED src
    /\ IF HoldsArc(handles[i])
       THEN /\ heap' = Arc_fetch_sub(heap, handles[i].arc)
            /\ pending' = [pending EXCEPT ![Owner(i)] =
                  IF Arc_is_last(heap[handles[i].arc].strong)
                  THEN handles[i].arc ELSE 0]
       ELSE UNCHANGED <<heap, pending>>

DropFinish(t) ==
    /\ pending[t] # 0
    /\ heap' = Arc_drop_slow(heap, pending[t])
    /\ pending' = [pending EXCEPT ![t] = 0]
    /\ last' = Op("release", 0, 0, NoneOpt, 0)
    /\ UNCHANGED <<src, handles, slot, ghost>>

Next ==
    \/ \E j \in Slots : NewArcFromArray(j, src)
    \/ \E j \in Slots : NewArcFromIter(j, src)
    \/ \E j \in Slots : NewArcDefault(j)
    \/ \E j \in Slots, cap \in Caps : NewSmallFromArray(j, cap, src)
    \/ \E j \in Slots, cap \in Caps : NewSmallFromIter(j, cap, src)
    \/ \E j \in Slots, cap \in Caps : NewSmallDefault(j, cap)
    \/ \E i, j \in Slots : Clone(i, j)
    \/ \E i, j \in Slots : TakeFirst(i, j)
    \/ \E i, j \in Slots : TakeLast(i, j)
    \/ \E i \in Slots : IntoIter(i)
    \/ \E i \in Slots : IterNext(i)
    \/ \E i \in Slots : Drop(i)
    \/ \E t \in Threads : DropFinish(t)

Spec == Init /\ [][Next]_vars

\* ------------------------------------------------------------ properties
Live(i) == slot[i] # "free"

\* What reading the handle in slot i gives.
Vis(i) == raw_inner_slice(handles[i], heap)

\* What the history of slot i says it shows: the source without the nf
\* elements taken at the front and the nl taken at the back.
GhostVis(i) ==
    SubSeq(ghost[i].root, ghost[i].nf + 1, Len(ghost[i].root) - ghost[i].nl)

Takes == {"take_first", "take_last"}

\* Length of the storage behind a handle.
BackingLen(h, hp) ==
    IF h.tag = "Inline" THEN Len(h.array)
    ELSE IF h.tag = "Shared" THEN Len(Deref(hp, h.arc))
    ELSE 0

C2_SplitResult ==
    [][last'.op \in Takes =>
        LET s == raw_inner_slice(handles[last'.recv], heap)
            L == Len(s)
            rest == raw_inner_slice(handles'[last'.dst], heap')
        IN IF L > 0
           THEN /\ last'.dst # 0
                /\ last'.op = "take_first" =>
                      last'.ret = Some(s[1]) /\ rest = SubSeq(s, 2, L)
                /\ last'.op = "take_last" =>
                      last'.ret = Some(s[L]) /\ rest = SubSeq(s, 1, L - 1)
           ELSE last'.ret = NoneOpt /\ last'.dst = 0 /\ handles' = handles
    ]_vars

C2_Witness ==
    /\ last.op = "take_first"
    /\ last.ret # NoneOpt
    /\ slot[last.recv] = "handle"
    /\ handles[last.recv].tag = "Shared"
    /\ Len(Vis(last.dst)) > 0
    /\ Vis(last.recv) = last.ret \o Vis(last.dst)

C4_ReceiverUnmodified ==
    [][\A i \in Slots :
        (slot[i] = "handle"
         /\ ~(last'.op \in {"drop", "into_iter"} /\ last'.recv = i))
        => /\ slot'[i] = "handle"
           /\ handles'[i] = handles[i]
           /\ raw_inner_slice(handles'[i], heap')
                = raw_inner_slice(handles[i], heap)
    ]_vars

C4_Witness ==
    /\ last.op \in Takes
    /\ last.ret # NoneOpt
    /\ slot[last.recv] = "handle"
    /\ handles[last.recv].tag = "Shared"
    /\ heap[handles[last.recv].arc].strong = 2
    /\ Vis(last.recv) = GhostVis(last.recv)

\* C5: the Inline/Shared tag of a small shared slice is the one its
\* construction chose, on every handle derived by clone, split or iterator
\* step, however short the range has become.
C5_TagSticky ==
    \A i \in Slots :
        (Live(i) /\ handles[i].kind = "SmallArcSlice")
        => handles[i].tag = ghost[i].tag0

C5_Witness ==
    \E i \in Slots :
        /\ Live(i)
        /\ handles[i].kind = "SmallArcSlice"
        /\ handles[i].tag = "Shared"
        /\ ghost[i].nf + ghost[i].nl > 0
        /\ handles[i].end - handles[i].start <= handles[i].cap

\* C6: a small shared slice built from N elements with capacity CAP is
\* Inline, with no buffer created, if N <= CAP; otherwise it is Shared by
\* exactly one new buffer that holds the N elements in source order.  Its
\* range is [0, N) and it shows the source.
C6_Construction ==
    [][(last'.op \in {"from", "from_iter"}
        /\ handles'[last'.dst].kind = "SmallArcSlice") =>
        LET h == handles'[last'.dst]
            N == Len(src)
            new == {b \in Bufs : heap'[b] # heap[b]}
        IN /\ IF N <= h.cap
              THEN h.tag = "Inline" /\ new = {} /\ h.array = src
              ELSE /\ h.tag = "Shared" /\ new = {h.arc}
                   /\ heap[h.arc].state = "unalloc"
                   /\ heap'[h.arc].state = "live"
                   /\ heap'[h.arc].strong = 1
                   /\ heap'[h.arc].data = src
           /\ h.start = 0 /\ h.end = N
           /\ raw_inner_slice(h, heap') = src
    ]_vars

C6_Witness ==
    /\ last.op = "from_iter"
    /\ handles[last.dst].kind = "SmallArcSlice"
    /\ handles[last.dst].tag = "Shared"
    /\ handles[last.dst].cap > 0
    /\ Len(src) = handles[last.dst].cap + 1

\* C7: an iterator made from a handle showing `orig` yields orig[0],
\* orig[1], ... in order, holds orig[k..L) after k elements, returns none
\* exactly when all L have been yielded, and none ever after.
C7_Iteration ==
    \A i \in Slots :
        slot[i] = "iter" =>
        LET g == ghost[i]
            L == Len(g.orig)
        IN /\ g.k <= L
           /\ Vis(i) = SubSeq(g.orig, g.k + 1, L)
           /\ g.done => g.k = L
           /\ (last.op = "next" /\ last.recv = i) =>
                 IF last.ret = NoneOpt THEN g.k = L /\ g.done
                 ELSE g.k >= 1 /\ last.ret = Some(g.orig[g.k]) /\ ~g.done

C7_Witness ==
    \E i \in Slots :
        /\ slot[i] = "iter"
        /\ last.op = "next" /\ last.recv = i /\ last.ret = NoneOpt
        /\ ghost[i].k = Len(ghost[i].orig)
        /\ ghost[i].k >= 2
        /\ ghost[i].orig[1] # ghost[i].orig[2]

Refs(b) == {i \in Slots : Live(i) /\ HoldsArc(handles[i]) /\ handles[i].arc = b}

\* C8: under every interleaving of the two threads a live buffer's strong
\* count is the number of handles and iterators that refer to it, a buffer
\* is released once, by the thread that dropped its last handle, and never
\* while something refers to it; what the remaining handles read is the
\* buffer as constructed.
C8_RefCount ==
    /\ \A b \in Bufs :
        /\ heap[b].state = "live" =>
              /\ heap[b].strong = Cardinality(Refs(b))
              /\ heap[b].strong = 0 => \E t \in Threads : pending[t] = b
              /\ heap[b].nfree = 0
        /\ heap[b].state = "freed" =>
              /\ heap[b].nfree = 1
              /\ Refs(b) = {}
        /\ heap[b].state = "unalloc" => Refs(b) = {}
    /\ \A t \in Threads :
        pending[t] # 0 => /\ heap[pending[t]].state = "live"
                          /\ heap[pending[t]].strong = 0
                          /\ \A u \in Threads : u # t => pending[u] # pending[t]
    /\ \A i \in Slots :
        (Live(i) /\ HoldsArc(handles[i]))
        => Deref(heap, handles[i].arc) = ghost[i].root

C8_Witness ==
    \E i, j \in Slots :
        /\ i # j
        /\ slot[i] = "iter" /\ ghost[i].k >= 1
        /\ slot[j] = "handle" /\ handles[j].start = handles[j].end
        /\ HoldsArc(handles[i]) /\ HoldsArc(handles[j])
        /\ handles[i].arc = handles[j].arc
        /\ heap[handles[i].arc].strong = 2
        /\ \E b \in Bufs : heap[b].state = "freed"

\* C9: every handle has 0 <= range.start <= range.end <= the length of the
\* storage behind it.
C9_RangeInBounds ==
    \A i \in Slots :
        Live(i) => /\ 0 <= handles[i].start
                   /\ handles[i].start <= handles[i].end
                   /\ handles[i].end <= BackingLen(handles[i], heap)

C9_Witness ==
    \E i \in Slots :
        /\ Live(i)
        /\ handles[i].start >= 1
        /\ handles[i].start = handles[i].end
        /\ handles[i].end < BackingLen(handles[i], heap)

\* C10: after i take_first and j take_last steps, in any order, on a handle
\* built from s, the handle shows s[i..L-j); while i + j < L both splits
\* succeed, at i + j = L both return none.
C10_SplitsCommute ==
    \A i \in Slots :
        Live(i) =>
        LET g == ghost[i]
            L == Len(g.root)
        IN /\ g.nf + g.nl <= L
           /\ Vis(i) = SubSeq(g.root, g.nf + 1, L - g.nl)
           /\ arc_slice_split_first(handles[i], heap).some <=> g.nf + g.nl < L
           /\ arc_slice_split_last(handles[i], heap).some <=> g.nf + g.nl < L

C10_Witness ==
    \E i \in Slots :
        /\ slot[i] = "handle"
        /\ ghost[i].nf >= 1 /\ ghost[i].nl >= 1
        /\ ghost[i].nf + ghost[i].nl = Len(ghost[i].root)
        /\ last.op = "take_first" /\ last.dst = i
====
